---- MODULE Spec2Model ----
(***************************************************************************)
(* DdpgAgent (tf_agents/agents/ddpg/ddpg_agent.py) as a state machine.     *)
(*                                                                         *)
(* The agent owns four variable collections, one per network scope, and    *)
(* two operations: initialize() and train(experience).  The agent builds   *)
(* a dataflow graph; one train call is one run of that graph.  The ops of  *)
(* a run (critic_loss, actor_loss, critic_train_op, actor_train_op,        *)
(* update_targets_op, total_loss) are ordered only by the data and control *)
(* dependencies the source states, so a run is modelled as one step per    *)
(* op, every schedule the dependencies allow being a behaviour.  No other  *)
(* operation starts while a run is in progress (callers serialize calls).  *)
(*                                                                         *)
(* Numbers.  Parameters, observations, actions and rewards are integers.   *)
(* target_update_tau is a float in [0,1]; it is held as a count of 1/Den.  *)
(* Online parameters are multiples of Unit = Den^MaxTrain and the          *)
(* optimizer moves them by Unit, so that MaxTrain successive blends stay   *)
(* exact.  Loss values are held doubled (Huber's 0.5 factor stays whole).  *)
(* The batch holds one sample, so a mean over the batch is the sample.     *)
(***************************************************************************)
EXTENDS Integers, Sequences, FiniteSets, TLC

\* ------------------------------------------------------------------ bounds
MaxTrain == 2
MaxPeriod == 2
MaxInitialize == 1

\* ------------------------------------------------------- number helpers
Den == 2
RECURSIVE Pow(_, _)
Pow(b, n) == IF n = 0 THEN 1 ELSE b * Pow(b, n - 1)
Unit == Pow(Den, MaxTrain)
Abs(x) == IF x < 0 THEN -x ELSE x
Sign(x) == IF x > 0 THEN 1 ELSE IF x < 0 THEN -1 ELSE 0
Min2(a, b) == IF a < b THEN a ELSE b
Max2(a, b) == IF a > b THEN a ELSE b

\* ------------------------------------------------------------- scopes
ACTOR_NET_SCOPE == "actor_net"
TARGET_ACTOR_NET_SCOPE == "target_actor_net"
CRITIC_NET_SCOPE == "critic_net"
TARGET_CRITIC_NET_SCOPE == "target_critic_net"
Scopes ==
  {ACTOR_NET_SCOPE, TARGET_ACTOR_NET_SCOPE, CRITIC_NET_SCOPE, TARGET_CRITIC_NET_SCOPE}

VARIABLES
  target_update_tau,     \* self._target_update_tau, in 1/Den
  target_update_period,  \* self._target_update_period
  dqda_clipping,         \* self._dqda_clipping: [set |-> FALSE] is None
  gamma,                 \* self._gamma
  reward_scale_factor,   \* self._reward_scale_factor
  variables,             \* scope -> parameter vector
  periodic_counter,      \* counter of train's periodic_update_targets
  pc,                    \* "idle" | "running"
  done,                  \* ops of the current run that have executed
  experience,            \* the batch given to the latest train call
  transitions,           \* (time_steps, actions, next_time_steps) of the run
  tensors,               \* values the ops of the run have produced
  result,                \* what the latest train call gave back
  calls,                 \* history: number of train runs started
  initializations,       \* history: number of initialize calls
  pre,                   \* history: variables when the latest operation began
  last_op,               \* history: the latest operation that ran ops:
                         \*   "none" | "initialize" | "train"
  last_update,           \* history: the latest executed target update
  train_updates,         \* history: target updates executed by train runs
  train_hard_copies      \* history: those executed with tau = 1.0

config == <<target_update_tau, target_update_period, dqda_clipping, gamma,
            reward_scale_factor>>
history == <<calls, initializations, pre, last_op, last_update, train_updates, train_hard_copies>>
vars == <<config, variables, periodic_counter, pc, done, experience,
          transitions, tensors, result, history>>

\* ------------------------------------------------------- input domains
Taus == 0 .. Den
Periods == 1 .. MaxPeriod
NoClipping == [set |-> FALSE, bound |-> 0]
Clippings == {NoClipping, [set |-> TRUE, bound |-> 0], [set |-> TRUE, bound |-> 1]}
Gammas == {0, 1}
RewardScales == {1, 2}

InitialVariables ==
  { [s \in Scopes |->
       CASE s = ACTOR_NET_SCOPE -> <<Unit, 0>>
         [] s = TARGET_ACTOR_NET_SCOPE -> <<0, Unit>>
         [] s = CRITIC_NET_SCOPE -> <<Unit, -Unit>>
         [] s = TARGET_CRITIC_NET_SCOPE -> <<-Unit, 0>>],
    [s \in Scopes |->
       CASE s = ACTOR_NET_SCOPE -> <<-Unit, Unit>>
         [] s = TARGET_ACTOR_NET_SCOPE -> <<Unit, Unit>>
         [] s = CRITIC_NET_SCOPE -> <<-Unit, Unit>>
         [] s = TARGET_CRITIC_NET_SCOPE -> <<0, -Unit>>] }

Step(o, a, r, d) == [observation |-> o, action |-> a, reward |-> r, discount |-> d]
Experiences ==
  { <<Step(1, 1, 0, 1)>>,
    <<Step(1, 1, 0, 1), Step(1, 0, 1, 1)>>,
    <<Step(1, -1, 0, 1), Step(-1, 0, 3, 0)>>,
    <<Step(0, 1, 0, 1), Step(1, 0, -2, 1)>>,
    <<Step(1, 1, 0, 1), Step(1, 1, 1, 1), Step(1, 0, 1, 0)>> }

NoTransitions ==
  [time_steps |-> Step(0, 0, 0, 0), actions |-> 0, next_time_steps |-> Step(0, 0, 0, 0)]
NoTensors ==
  [td_targets |-> 0, q_values |-> 0, critic_loss |-> 0,
   critic_grads |-> <<0, 0>>,
   dqda |-> 0, dqda_used |-> 0, actor_loss |-> 0, actor_grads |-> <<0, 0>>,
   critic_stepped |-> <<0, 0>>, actor_stepped |-> <<0, 0>>, update_ran |-> FALSE]
NoUpdate == [by |-> "none", tau |-> 0]

\* ------------------------------------------- networks and the optimizer
\* The pluggable network functions, here linear in their parameters.
actor_net(theta, observation) == theta[1] * observation + theta[2]
critic_net(w, observation, action) == w[1] * action + w[2] * observation
\* d critic_net / d action
dq_daction(w) == w[1]

\* tf.losses.huber_loss with delta = 1.0, doubled.
huber_loss(labels, predictions) ==
  LET e == labels - predictions
  IN  IF Abs(e) <= 1 THEN e * e ELSE 2 * Abs(e) - 1
\* tf.losses.mean_squared_error, doubled.
mean_squared_error(labels, predictions) ==
  2 * (labels - predictions) * (labels - predictions)
clip_by_value(x, lo, hi) == Max2(lo, Min2(x, hi))

\* The optimizer step on one parameter vector: each parameter moves by Unit
\* against the sign of its gradient (a zero gradient leaves it alone).
apply_gradients(w, grads) == [i \in DOMAIN w |-> w[i] - Unit * Sign(grads[i])]

\* ------------------------------------------------- soft target updater
soft_variables_update(source, target, tau) ==
  [i \in DOMAIN target |-> ((Den - tau) * target[i] + tau * source[i]) \div Den]

\* update() inside _update_targets: the critic pair, then the actor pair.
update_swapped(vs, tau) ==
  [vs EXCEPT
     ![CRITIC_NET_SCOPE] =
        soft_variables_update(vs[TARGET_CRITIC_NET_SCOPE], vs[CRITIC_NET_SCOPE], tau),
     ![ACTOR_NET_SCOPE] =
        soft_variables_update(vs[TARGET_ACTOR_NET_SCOPE], vs[ACTOR_NET_SCOPE], tau)]
update_crossed(vs, tau) ==
  [vs EXCEPT
     ![TARGET_CRITIC_NET_SCOPE] =
        soft_variables_update(vs[ACTOR_NET_SCOPE], vs[TARGET_CRITIC_NET_SCOPE], tau),
     ![TARGET_ACTOR_NET_SCOPE] =
        soft_variables_update(vs[ACTOR_NET_SCOPE], vs[TARGET_ACTOR_NET_SCOPE], tau)]
update(vs, tau) ==
  [vs EXCEPT
     ![TARGET_CRITIC_NET_SCOPE] =
        soft_variables_update(vs[CRITIC_NET_SCOPE], vs[TARGET_CRITIC_NET_SCOPE], tau),
     ![TARGET_ACTOR_NET_SCOPE] =
        soft_variables_update(vs[ACTOR_NET_SCOPE], vs[TARGET_ACTOR_NET_SCOPE], tau)]

\* common_utils.periodically: a call counter gates the body, which runs on
\* every period-th call.
periodically(counter, period) ==
  [runs    |-> counter + 1 >= period,
   counter |-> IF counter + 1 >= period THEN 0 ELSE counter + 1]

\* _update_targets(tau, period) run once on variables vs with its counter.
update_targets(vs, counter, tau, period) ==
  LET gate == periodically(counter, period)
  IN  [variables |-> IF gate.runs THEN update(vs, tau) ELSE vs,
       counter   |-> gate.counter,
       ran       |-> gate.runs]

\* The arguments _initialize gives _update_targets.
initialize_args_configured == [tau |-> target_update_tau, period |-> target_update_period]
initialize_args == [tau |-> Den, period |-> 1]

\* The arguments _train gives _update_targets.
train_update_args_every_call == [tau |-> target_update_tau, period |-> 1]
train_update_args_hard == [tau |-> Den, period |-> target_update_period]
train_update_args == [tau |-> target_update_tau, period |-> target_update_period]

\* ------------------------------------------------ transition extractor
\* trajectory.to_transition: the steps but the last, their recorded actions,
\* and the steps but the first, each still with its time dimension.
to_transition(exp) ==
  [time_steps      |-> SubSeq(exp, 1, Len(exp) - 1),
   policy_steps    |-> [i \in 1 .. Len(exp) - 1 |-> exp[i].action],
   next_time_steps |-> SubSeq(exp, 2, Len(exp))]

\* tf.squeeze(x, [1]) is defined only when the time dimension has size 1.
can_squeeze_nonempty(x) == Len(x) >= 1
can_squeeze(x) == Len(x) = 1
squeeze(x) == x[1]

experience_to_transitions(exp) ==
  LET t == to_transition(exp)
  IN  IF can_squeeze(t.time_steps) /\ can_squeeze(t.policy_steps)
         /\ can_squeeze(t.next_time_steps)
      THEN [ok |-> TRUE,
            value |-> [time_steps      |-> squeeze(t.time_steps),
                       actions         |-> squeeze(t.policy_steps),
                       next_time_steps |-> squeeze(t.next_time_steps)]]
      ELSE [ok |-> FALSE, value |-> NoTransitions]

\* ------------------------------------------------------ loss evaluators
\* critic_loss: which parameters pick the bootstrap action and value it.
target_actions_online(vs, next_time_steps) ==
  actor_net(vs[ACTOR_NET_SCOPE], next_time_steps.observation)
target_actions(vs, next_time_steps) ==
  actor_net(vs[TARGET_ACTOR_NET_SCOPE], next_time_steps.observation)
target_q_values(vs, next_time_steps) ==
  critic_net(vs[TARGET_CRITIC_NET_SCOPE], next_time_steps.observation,
             target_actions(vs, next_time_steps))
td_targets(vs, next_time_steps) ==
  reward_scale_factor * next_time_steps.reward
    + gamma * next_time_steps.discount * target_q_values(vs, next_time_steps)
q_values(vs, time_steps, actions) ==
  critic_net(vs[CRITIC_NET_SCOPE], time_steps.observation, actions)
critic_loss(vs, time_steps, actions, next_time_steps) ==
  huber_loss(td_targets(vs, next_time_steps), q_values(vs, time_steps, actions))
\* Gradient of critic_loss in the critic's parameters (td_targets is under
\* stop_gradient): -huber'(e) * dq/dw, of which only the sign is used.
critic_loss_gradients(vs, time_steps, actions, next_time_steps) ==
  LET e == td_targets(vs, next_time_steps) - q_values(vs, time_steps, actions)
  IN  <<-Sign(e) * actions, -Sign(e) * time_steps.observation>>

\* actor_loss: dqda, clipped when a bound is set.
dqda_of(vs) == dq_daction(vs[CRITIC_NET_SCOPE])
clip_dqda(x) ==
  IF dqda_clipping.set
  THEN clip_by_value(x, -1 * dqda_clipping.bound, dqda_clipping.bound)
  ELSE x
actor_loss(vs, time_steps) ==
  LET action == actor_net(vs[ACTOR_NET_SCOPE], time_steps.observation)
      dqda   == clip_dqda(dqda_of(vs))
  IN  mean_squared_error(dqda + action, action)
\* Gradient of actor_loss in the actor's parameters (the label is under
\* stop_gradient): 2 * (action - label) * daction/dtheta = -2 * dqda * (obs, 1).
actor_loss_gradients(vs, time_steps) ==
  LET dqda == clip_dqda(dqda_of(vs))
  IN  <<-Sign(dqda) * time_steps.observation, -Sign(dqda)>>

\* ------------------------------------------------------- the train graph
CRITIC_LOSS == "critic_loss"
ACTOR_LOSS == "actor_loss"
CRITIC_TRAIN_OP == "critic_train_op"
ACTOR_TRAIN_OP == "actor_train_op"
UPDATE_TARGETS_OP == "update_targets_op"

\* variables_to_train of the two create_train_op calls.
critic_variables_to_train == {CRITIC_NET_SCOPE}
actor_variables_to_train == {ACTOR_NET_SCOPE}
train_step(vs, variables_to_train, grads) ==
  [s \in Scopes |->
     IF s \in variables_to_train THEN apply_gradients(vs[s], grads) ELSE vs[s]]

\* tf.control_dependencies of update_targets_op and of total_loss.
update_targets_dependencies_none == {}
update_targets_dependencies == {CRITIC_TRAIN_OP, ACTOR_TRAIN_OP}
total_loss_dependencies == {UPDATE_TARGETS_OP, ACTOR_LOSS, CRITIC_LOSS}

\* ------------------------------------------------------------------ Init
Init ==
  /\ target_update_tau \in Taus
  /\ target_update_period \in Periods
  /\ dqda_clipping \in Clippings
  /\ gamma \in Gammas
  /\ reward_scale_factor \in RewardScales
  /\ variables \in InitialVariables
  /\ periodic_counter = 0
  /\ pc = "idle"
  /\ done = {}
  /\ experience = <<>>
  /\ transitions = NoTransitions
  /\ tensors = NoTensors
  /\ result = [status |-> "none", loss |-> 0]
  /\ calls = 0
  /\ initializations = 0
  /\ pre = variables
  /\ last_op = "none"
  /\ last_update = NoUpdate
  /\ train_updates = 0
  /\ train_hard_copies = 0

\* --------------------------------------------------------------- actions
\* initialize(): _update_targets(1.0, 1), on an op of its own.
initialize ==
  /\ pc = "idle"
  /\ initializations < MaxInitialize
  /\ initializations' = initializations + 1
  /\ LET a == initialize_args
         u == update_targets(variables, 0, a.tau, a.period)
     IN  /\ variables' = u.variables
         /\ last_update' = IF u.ran THEN [by |-> "initialize", tau |-> a.tau]
                                    ELSE last_update
  /\ pre' = variables
  /\ last_op' = "initialize"
  /\ UNCHANGED <<config, periodic_counter, pc, done, experience, transitions,
                 tensors, result, calls, train_updates, train_hard_copies>>

\* train(experience) on a batch the transition extractor rejects.
train_invalid_input(exp) ==
  /\ pc = "idle"
  /\ ~experience_to_transitions(exp).ok
  /\ experience' = exp
  /\ result' = [status |-> "InvalidInputError", loss |-> 0]
  /\ UNCHANGED <<config, variables, periodic_counter, pc, done, transitions,
                 tensors, calls, initializations, pre, last_op, last_update,
                 train_updates, train_hard_copies>>

\* train(experience): the transitions are extracted and the run begins.
train_begin(exp) ==
  /\ pc = "idle"
  /\ calls < MaxTrain
  /\ experience_to_transitions(exp).ok
  /\ experience' = exp
  /\ transitions' = experience_to_transitions(exp).value
  /\ pc' = "running"
  /\ done' = {}
  /\ tensors' = NoTensors
  /\ result' = [status |-> "running", loss |-> 0]
  /\ calls' = calls + 1
  /\ pre' = variables
  /\ last_op' = "train"
  /\ UNCHANGED <<config, variables, periodic_counter, initializations,
                 last_update, train_updates, train_hard_copies>>

\* The critic_loss tensor and its gradient are evaluated.
critic_loss_op ==
  /\ pc = "running"
  /\ CRITIC_LOSS \notin done
  /\ LET ts == transitions.time_steps
         ac == transitions.actions
         nx == transitions.next_time_steps
     IN  tensors' = [tensors EXCEPT
           !.td_targets = td_targets(variables, nx),
           !.q_values = q_values(variables, ts, ac),
           !.critic_loss = critic_loss(variables, ts, ac, nx),
           !.critic_grads = critic_loss_gradients(variables, ts, ac, nx)]
  /\ done' = done \cup {CRITIC_LOSS}
  /\ UNCHANGED <<config, variables, periodic_counter, pc, experience,
                 transitions, result, history>>

\* The actor_loss tensor and its gradient are evaluated.  It reads the online
\* critic's variables, which critic_train_op writes; the graph holds no data
\* or control dependency between the two, so either may come first.
actor_loss_op ==
  /\ pc = "running"
  /\ ACTOR_LOSS \notin done
  /\ LET ts == transitions.time_steps
     IN  tensors' = [tensors EXCEPT
           !.dqda = dqda_of(variables),
           !.dqda_used = clip_dqda(dqda_of(variables)),
           !.actor_loss = actor_loss(variables, ts),
           !.actor_grads = actor_loss_gradients(variables, ts)]
  /\ done' = done \cup {ACTOR_LOSS}
  /\ UNCHANGED <<config, variables, periodic_counter, pc, experience,
                 transitions, result, history>>

\* critic_train_op: the critic optimizer applies the critic_loss gradient
\* (its only dependency is the critic_loss it differentiates).
critic_train_op ==
  /\ pc = "running"
  /\ CRITIC_LOSS \in done
  /\ CRITIC_TRAIN_OP \notin done
  /\ variables' = train_step(variables, critic_variables_to_train, tensors.critic_grads)
  /\ tensors' = [tensors EXCEPT !.critic_stepped = variables'[CRITIC_NET_SCOPE]]
  /\ done' = done \cup {CRITIC_TRAIN_OP}
  /\ UNCHANGED <<config, periodic_counter, pc, experience, transitions,
                 result, history>>

\* actor_train_op: the actor optimizer applies the actor_loss gradient.
actor_train_op ==
  /\ pc = "running"
  /\ ACTOR_LOSS \in done
  /\ ACTOR_TRAIN_OP \notin done
  /\ variables' = train_step(variables, actor_variables_to_train, tensors.actor_grads)
  /\ tensors' = [tensors EXCEPT !.actor_stepped = variables'[ACTOR_NET_SCOPE]]
  /\ done' = done \cup {ACTOR_TRAIN_OP}
  /\ UNCHANGED <<config, periodic_counter, pc, experience, transitions,
                 result, history>>

\* update_targets_op: _update_targets(tau, period) under its control
\* dependencies.
update_targets_op ==
  /\ pc = "running"
  /\ update_targets_dependencies \subseteq done
  /\ UPDATE_TARGETS_OP \notin done
  /\ LET a == train_update_args
         u == update_targets(variables, periodic_counter, a.tau, a.period)
     IN  /\ variables' = u.variables
         /\ periodic_counter' = u.counter
         /\ tensors' = [tensors EXCEPT !.update_ran = u.ran]
         /\ last_update' = IF u.ran THEN [by |-> "train", tau |-> a.tau]
                                    ELSE last_update
         /\ train_updates' = IF u.ran THEN train_updates + 1 ELSE train_updates
         /\ train_hard_copies' = IF u.ran /\ a.tau = Den
                                 THEN train_hard_copies + 1
                                 ELSE train_hard_copies
  /\ done' = done \cup {UPDATE_TARGETS_OP}
  /\ UNCHANGED <<config, pc, experience, transitions, result, calls,
                 initializations, pre, last_op>>

\* total_loss = actor_loss + critic_loss is produced and the call returns.
total_loss_op ==
  /\ pc = "running"
  /\ total_loss_dependencies \subseteq done
  /\ result' = [status |-> "LossInfo",
                loss |-> tensors.actor_loss + tensors.critic_loss]
  /\ pc' = "idle"
  /\ UNCHANGED <<config, variables, periodic_counter, done, experience,
                 transitions, tensors, history>>

Next ==
  \/ initialize
  \/ \E exp \in Experiences : train_invalid_input(exp)
  \/ \E exp \in Experiences : train_begin(exp)
  \/ critic_loss_op
  \/ actor_loss_op
  \/ critic_train_op
  \/ actor_train_op
  \/ update_targets_op
  \/ total_loss_op

Spec == Init /\ [][Next]_vars

\* ---------------------------------------------------------------- claims
Targets(vs) == <<vs[TARGET_ACTOR_NET_SCOPE], vs[TARGET_CRITIC_NET_SCOPE]>>
Online(vs) == <<vs[ACTOR_NET_SCOPE], vs[CRITIC_NET_SCOPE]>>
\* The latest operation was a train run, still in progress or returned.
InTrain == last_op = "train"
\* w_t = (1 - tau) w_t0 + tau w_s, parameter by parameter, without division.
Blended(t, t0, s, tau) ==
  /\ DOMAIN t = DOMAIN t0
  /\ \A i \in DOMAIN t : Den * t[i] = (Den - tau) * t0[i] + tau * s[i]

\* C1: after initialize() every target-actor parameter equals its
\* online-actor parameter and every target-critic parameter its
\* online-critic parameter, whatever the online values are.
C1_InitializeSyncsTargets ==
  last_op = "initialize" =>
    /\ variables[TARGET_ACTOR_NET_SCOPE] = variables[ACTOR_NET_SCOPE]
    /\ variables[TARGET_CRITIC_NET_SCOPE] = variables[CRITIC_NET_SCOPE]
\* initialize() ran after training and overwrote targets that differed.
C1_Witness ==
  /\ last_op = "initialize"
  /\ calls >= 1
  /\ Targets(pre) # Online(pre)
  /\ Targets(variables) = Online(variables)

\* C2: in a train run the target parameters change only when the run's
\* call-count is a multiple of target_update_period; on any other call the
\* update op leaves them unchanged, still completes, and the call returns
\* a loss as on a non-skipped call.
C2_PeriodGate ==
  InTrain =>
    /\ Targets(variables) # Targets(pre) =>
         /\ UPDATE_TARGETS_OP \in done
         /\ calls % target_update_period = 0
    /\ UPDATE_TARGETS_OP \in done =>
         /\ tensors.update_ran <=> (calls % target_update_period = 0)
         /\ pc = "running" => ENABLED total_loss_op
    /\ (pc = "idle" /\ result.status # "InvalidInputError") =>
         /\ result.status = "LossInfo"
         /\ UPDATE_TARGETS_OP \in done
\* A skipped call has trained the online networks, left the targets alone
\* and returned its loss.
C2_Witness ==
  /\ InTrain
  /\ pc = "idle"
  /\ result.status = "LossInfo"
  /\ calls % target_update_period # 0
  /\ Online(variables) # Online(pre)
  /\ Targets(variables) = Targets(pre)
  /\ Targets(variables) # Online(variables)
\* An executed update on a call that is a multiple of the period, after a
\* skipped one.
C2_WitnessExecuted ==
  /\ InTrain
  /\ target_update_period = 2
  /\ calls = 2
  /\ Targets(variables) # Targets(pre)

\* A target update, of initialize() or of the latest train run, has
\* executed and nothing ran since.
UpdateExecuted ==
  \/ last_op = "initialize"
  \/ InTrain /\ UPDATE_TARGETS_OP \in done /\ tensors.update_ran

\* C3: whenever the soft update executes with blend factor tau, each
\* target-critic parameter becomes (1-tau)*w_t + tau*w_s for its
\* online-critic counterpart, and each target-actor parameter likewise for
\* its online-actor counterpart; with tau = 0 the targets are unchanged.
C3_SoftUpdateRule ==
  UpdateExecuted =>
    /\ Blended(variables[TARGET_CRITIC_NET_SCOPE], pre[TARGET_CRITIC_NET_SCOPE],
               variables[CRITIC_NET_SCOPE], last_update.tau)
    /\ Blended(variables[TARGET_ACTOR_NET_SCOPE], pre[TARGET_ACTOR_NET_SCOPE],
               variables[ACTOR_NET_SCOPE], last_update.tau)
    /\ last_update.tau = 0 => Targets(variables) = Targets(pre)
\* A proper blend (0 < tau < 1) moved targets that differed from the
\* online parameters.
C3_Witness ==
  /\ InTrain
  /\ UPDATE_TARGETS_OP \in done
  /\ tensors.update_ran
  /\ last_update.tau = 1
  /\ Targets(variables) # Targets(pre)
  /\ Targets(variables) # Online(variables)
\* An executed update with tau = 0 while targets and online differ.
C3_WitnessTauZero ==
  /\ InTrain
  /\ UPDATE_TARGETS_OP \in done
  /\ tensors.update_ran
  /\ last_update.tau = 0
  /\ Targets(variables) # Online(variables)

\* C4: in actor_loss dqda is clipped to [-dqda_clipping, dqda_clipping] only
\* when a clip bound is configured; a bound of 0, like an unset bound,
\* disables clipping, so the unclipped dqda is used.
C4_ZeroBoundDisablesClipping ==
  (InTrain /\ ACTOR_LOSS \in done) =>
    tensors.dqda_used =
      IF dqda_clipping.set /\ dqda_clipping.bound # 0
      THEN Max2(-dqda_clipping.bound, Min2(tensors.dqda, dqda_clipping.bound))
      ELSE tensors.dqda

\* C5: train() fails with InvalidInputError whenever the batch's temporal
\* extent is not exactly 2, and for extent 2 it proceeds with the current
\* step, the current step's recorded action and the next step, none of them
\* keeping a time dimension.
C5_SequenceLengthTwo ==
  /\ Len(experience) \notin {0, 2} =>
       /\ result.status = "InvalidInputError"
       /\ pc = "idle"
  /\ result.status = "InvalidInputError" => Len(experience) # 2
  /\ result.status \in {"running", "LossInfo"} =>
       /\ Len(experience) = 2
       /\ transitions.time_steps = experience[1]
       /\ transitions.actions = experience[1].action
       /\ transitions.next_time_steps = experience[2]
\* A length-3 batch was rejected after an earlier call had trained.
C5_Witness ==
  /\ Len(experience) = 3
  /\ result.status = "InvalidInputError"
  /\ calls >= 1
\* A length-1 batch was rejected.
C5_WitnessLengthOne ==
  /\ Len(experience) = 1
  /\ result.status = "InvalidInputError"
\* A length-2 batch went through to a returned loss.
C5_WitnessAccepted ==
  /\ Len(experience) = 2
  /\ result.status = "LossInfo"

Fires(op) == op \notin done /\ op \in done'
InitializeFires == initializations' # initializations

\* C6: the critic gradient step changes only online-critic parameters and
\* the actor gradient step only online-actor parameters; target parameters
\* change only in a soft target update (of train or of initialize), and a
\* soft target update changes no online parameter.
C6_Frame ==
  [][ /\ Fires(CRITIC_TRAIN_OP) =>
           \A s \in Scopes \ {CRITIC_NET_SCOPE} : variables'[s] = variables[s]
      /\ Fires(ACTOR_TRAIN_OP) =>
           \A s \in Scopes \ {ACTOR_NET_SCOPE} : variables'[s] = variables[s]
      /\ Targets(variables') # Targets(variables) =>
           Fires(UPDATE_TARGETS_OP) \/ InitializeFires
      /\ (Fires(UPDATE_TARGETS_OP) \/ InitializeFires) =>
           Online(variables') = Online(variables) ]_vars
\* Both gradient steps moved their network and a target update then moved
\* the targets, in one run.
C6_Witness ==
  /\ InTrain
  /\ UPDATE_TARGETS_OP \in done
  /\ pre[CRITIC_NET_SCOPE] # variables[CRITIC_NET_SCOPE]
  /\ pre[ACTOR_NET_SCOPE] # variables[ACTOR_NET_SCOPE]
  /\ Targets(pre) # Targets(variables)

\* C7 as stated: the tau = 1.0 hard copy happens only at initialize(); no
\* train() call performs a hard copy of the target parameters.
C7_NoHardCopyInTrain == train_hard_copies = 0
\* C7 amended: initialize() always hard-copies (tau = 1.0); a train() call's
\* target update uses the configured target_update_tau, so it is a hard copy
\* exactly when target_update_tau is 1.0 (the default) and the period gate
\* lets it run, and then the targets equal the online parameters.
C7_HardCopyFollowsConfiguredTau ==
  /\ train_hard_copies = IF target_update_tau = Den THEN train_updates ELSE 0
  /\ last_update.by = "initialize" => last_update.tau = Den
  /\ last_update.by = "train" => last_update.tau = target_update_tau
  /\ (UpdateExecuted /\ last_update.tau = Den) =>
       Targets(variables) = Online(variables)
\* Two train calls each hard-copied trained online parameters.
C7_Witness ==
  /\ train_hard_copies >= 2
  /\ InTrain
  /\ Targets(variables) # Targets(pre)
  /\ Targets(variables) = Online(variables)

\* C8 as stated: in a run the critic gradient step comes first, then the
\* actor gradient step, then the target update, then the loss is returned.
C8_CriticStepBeforeActorStep ==
  InTrain =>
    /\ ACTOR_TRAIN_OP \in done => CRITIC_TRAIN_OP \in done
    /\ UPDATE_TARGETS_OP \in done => ACTOR_TRAIN_OP \in done
    /\ result.status = "LossInfo" => UPDATE_TARGETS_OP \in done
\* C8 amended: both gradient steps are applied, in either order, before the
\* period-gated target update, and the loss is returned only after it; an
\* update that executes blends in the online parameters as the two gradient
\* steps left them.
C8_StepsBeforeUpdateBeforeReturn ==
  InTrain =>
    /\ UPDATE_TARGETS_OP \in done =>
         /\ {CRITIC_TRAIN_OP, ACTOR_TRAIN_OP} \subseteq done
         /\ variables[CRITIC_NET_SCOPE] = tensors.critic_stepped
         /\ variables[ACTOR_NET_SCOPE] = tensors.actor_stepped
    /\ (UPDATE_TARGETS_OP \in done /\ tensors.update_ran) =>
         /\ Blended(variables[TARGET_CRITIC_NET_SCOPE], pre[TARGET_CRITIC_NET_SCOPE],
                    tensors.critic_stepped, last_update.tau)
         /\ Blended(variables[TARGET_ACTOR_NET_SCOPE], pre[TARGET_ACTOR_NET_SCOPE],
                    tensors.actor_stepped, last_update.tau)
    /\ (pc = "idle" /\ result.status = "LossInfo") => UPDATE_TARGETS_OP \in done
\* A proper blend (0 < tau < 1) took in online parameters that both gradient
\* steps had moved, and the loss was then returned.
C8_Witness ==
  /\ InTrain
  /\ pc = "idle"
  /\ result.status = "LossInfo"
  /\ tensors.update_ran
  /\ last_update.tau = 1
  /\ tensors.critic_stepped # pre[CRITIC_NET_SCOPE]
  /\ tensors.actor_stepped # pre[ACTOR_NET_SCOPE]
  /\ Targets(variables) # Targets(pre)

\* C9: critic_loss regresses the online critic's q for the recorded action
\* on td_target = reward_scale_factor * next_reward
\*                + gamma * next_discount * target_q,
\* target_q being the target critic's value of the next step and of the
\* target actor's action there; with next_discount = 0 the target is
\* reward_scale_factor * next_reward whatever the target parameters are.
C9_TdTarget ==
  (InTrain /\ CRITIC_LOSS \in done) =>
    LET nx == transitions.next_time_steps
        ts == transitions.time_steps
        ta == pre[TARGET_ACTOR_NET_SCOPE][1] * nx.observation
                + pre[TARGET_ACTOR_NET_SCOPE][2]
        tq == pre[TARGET_CRITIC_NET_SCOPE][1] * ta
                + pre[TARGET_CRITIC_NET_SCOPE][2] * nx.observation
        q  == pre[CRITIC_NET_SCOPE][1] * transitions.actions
                + pre[CRITIC_NET_SCOPE][2] * ts.observation
    IN  /\ tensors.td_targets =
             reward_scale_factor * nx.reward + gamma * nx.discount * tq
        /\ nx.discount = 0 => tensors.td_targets = reward_scale_factor * nx.reward
        /\ tensors.q_values = q
        /\ tensors.critic_loss = huber_loss(tensors.td_targets, q)
\* A bootstrapped target where the target actor and the online actor would
\* choose different actions.
C9_Witness ==
  /\ InTrain
  /\ CRITIC_LOSS \in done
  /\ gamma = 1
  /\ transitions.next_time_steps.discount = 1
  /\ pre[TARGET_CRITIC_NET_SCOPE][1] # 0
  /\ target_actions(pre, transitions.next_time_steps)
       # actor_net(pre[ACTOR_NET_SCOPE], transitions.next_time_steps.observation)
  /\ tensors.td_targets
       # reward_scale_factor * transitions.next_time_steps.reward
\* A terminal transition under gamma = 1 and a target critic whose value is
\* not zero.
C9_WitnessTerminal ==
  /\ InTrain
  /\ CRITIC_LOSS \in done
  /\ gamma = 1
  /\ transitions.next_time_steps.discount = 0
  /\ target_q_values(pre, transitions.next_time_steps) # 0

\* C10: both losses of a run are evaluated on the parameters as they were
\* when the call began, the actor loss against the critic before this run's
\* critic step, and the returned total is their sum.
C10_LossesOnCallStartParameters ==
  InTrain =>
    /\ CRITIC_LOSS \in done =>
         tensors.critic_loss =
           critic_loss(pre, transitions.time_steps, transitions.actions,
                       transitions.next_time_steps)
    /\ ACTOR_LOSS \in done =>
         tensors.actor_loss = actor_loss(pre, transitions.time_steps)
    /\ result.status = "LossInfo" =>
         result.loss = tensors.actor_loss + tensors.critic_loss
====
